---- MODULE Spec2Model ----
(***************************************************************************)
(* Verification model of src/seg2map/common.py (seg2map utility module).   *)
(*                                                                         *)
(* Python values are modelled as follows.                                  *)
(*   - a str is a sequence of one-character strings;                       *)
(*   - a value whose dynamic type matters is a record [t, v] with t one of *)
(*     "int", "str";                                                       *)
(*   - a dict is a record [keys, val]: keys is the sequence of its keys in *)
(*     insertion order and val the function from the keys to the values;   *)
(*   - a filesystem is a pair (dirs, files) of sets of paths, a path being *)
(*     the sequence of its components below "/" (<<>> is "/").             *)
(*   - a geographic coordinate is an integer number of hundredths of a     *)
(*     degree.                                                             *)
(***************************************************************************)
EXTENDS Integers, Sequences, FiniteSets, TLC

VARIABLES
    op,          \* name of the last function called ("init" before any call)
    coords,      \* get_epsg_from_geometry: geometry.exterior.coords
    utm_code,    \* get_epsg_from_geometry: str returned by convert_wgs_to_utm
    epsg         \* get_epsg_from_geometry: returned value

utmVars == <<coords, utm_code, epsg>>

VARIABLES
    dirs,        \* filesystem: the paths that are directories
    files,       \* filesystem: the paths that are regular files
    raised,      \* exception the last call ended with, "none" if it returned
    dirs0,       \* history: dirs when the last directory helper was called
    files0,      \* history: files when the last directory helper was called
    base_path,   \* create_year_directories: argument of the last call
    start_year,  \* create_year_directories: argument of the last call
    end_year,    \* create_year_directories: argument of the last call
    requested    \* history: year paths asked for by the calls of
                 \* create_year_directories made in a row up to now

fsVars == <<dirs, files, dirs0, files0, base_path, start_year, end_year,
            requested>>

VARIABLES
    gdf,         \* extract_roi_by_id: the collection passed in, after the call
    gdf0,        \* history: the collection as the caller built it
    roi_id,      \* extract_roi_by_id: the id passed in
    single_roi   \* extract_roi_by_id: the rows returned

roiVars == <<gdf, gdf0, roi_id, single_roi>>

VARIABLES
    inputs,      \* create_json_config: the dict passed in, after the call
    inputs0,     \* history: the dict as the caller built it
    settings,    \* create_json_config, create_roi_settings: settings dict
    config,      \* create_json_config: the dict returned
    selected_rois, \* create_roi_settings: the features of the collection
    filepath,    \* create_roi_settings: the path passed in
    roi_settings \* create_roi_settings: the dict returned

cfgVars == <<inputs, inputs0, settings, config, selected_rois, filepath,
             roi_settings>>

VARIABLES
    matrix,      \* scale: the matrix passed in, after the call
    matrix0,     \* history: the matrix as the caller built it
    rows,        \* scale: number of rows asked for
    cols,        \* scale: number of columns asked for
    scaled       \* scale: the matrix returned

scaleVars == <<matrix, matrix0, rows, cols, scaled>>

vars == <<op, raised, utmVars, fsVars, roiVars, cfgVars, scaleVars>>

-----------------------------------------------------------------------------
(* Idle values                                                             *)

\* Values of the resolver's variables while another component runs.
IdleUtm ==
    /\ coords = <<>>
    /\ utm_code = <<>>
    /\ epsg = 0

\* Values of the helpers' variables while another component runs.
IdleFs ==
    /\ dirs = {<<>>}
    /\ files = {}
    /\ dirs0 = {<<>>}
    /\ files0 = {}
    /\ base_path = <<>>
    /\ start_year = 0
    /\ end_year = 0
    /\ requested = {}

IdleRoi ==
    /\ gdf = <<>>
    /\ gdf0 = <<>>
    /\ roi_id = [t |-> "none", v |-> 0]
    /\ single_roi = <<>>

IdleCfg ==
    /\ inputs = [keys |-> <<>>, val |-> <<>>]
    /\ inputs0 = [keys |-> <<>>, val |-> <<>>]
    /\ settings = [keys |-> <<>>, val |-> <<>>]
    /\ config = [keys |-> <<>>, val |-> <<>>]
    /\ selected_rois = <<>>
    /\ filepath = <<>>
    /\ roi_settings = [keys |-> <<>>, val |-> <<>>]

IdleScale ==
    /\ matrix = <<>>
    /\ matrix0 = <<>>
    /\ rows = 0
    /\ cols = 0
    /\ scaled = <<>>

-----------------------------------------------------------------------------
(* Python built-ins                                                        *)

Digits == <<"0", "1", "2", "3", "4", "5", "6", "7", "8", "9">>

RECURSIVE NatToStr(_)
NatToStr(n) ==
    IF n < 10 THEN <<Digits[n + 1]>>
    ELSE NatToStr(n \div 10) \o <<Digits[(n % 10) + 1]>>

\* str(n) for an int n
IntToStr(n) == IF n < 0 THEN <<"-">> \o NatToStr(0 - n) ELSE NatToStr(n)

DigitVal(c) == CHOOSE d \in 0..9 : Digits[d + 1] = c

RECURSIVE DigitsToNat(_)
DigitsToNat(s) ==
    IF s = <<>> THEN 0
    ELSE 10 * DigitsToNat(SubSeq(s, 1, Len(s) - 1)) + DigitVal(s[Len(s)])

\* int(s) for a str s holding an optionally signed decimal numeral
StrToInt(s) ==
    IF s # <<>> /\ s[1] = "-" THEN 0 - DigitsToNat(Tail(s)) ELSE DigitsToNat(s)

PyNone    == [t |-> "none", v |-> 0]
PyInt(n)  == [t |-> "int", v |-> n]
PyStr(s)  == [t |-> "str", v |-> s]
PyList(l) == [t |-> "list", v |-> l]
PyDict(d) == [t |-> "dict", v |-> d]

\* a == b for two tagged values: values of different types never compare
\* equal
PyEq(a, b) == a.t = b.t /\ a.v = b.v

\* str(x) for x an int or a str
str(x) == IF x.t = "int" THEN IntToStr(x.v) ELSE x.v

\* The empty dict, and d[k] = v on a dict d: a new key goes last.
EmptyDict == [keys |-> <<>>, val |-> <<>>]

DictSet(d, k, v) ==
    [keys |-> IF k \in DOMAIN d.val THEN d.keys ELSE Append(d.keys, k),
     val  |-> [x \in (DOMAIN d.val) \cup {k} |-> IF x = k THEN v ELSE d.val[x]]]

\* list(d.keys())
DictKeys(d) == d.keys

\* The dict literal of the pairs in kvs, later pairs overriding earlier ones.
RECURSIVE DictOf(_)
DictOf(kvs) ==
    IF kvs = <<>> THEN EmptyDict
    ELSE LET n == Len(kvs)
         IN  DictSet(DictOf(SubSeq(kvs, 1, n - 1)), kvs[n][1], kvs[n][2])

-----------------------------------------------------------------------------
(* Directory helpers                                                       *)

\* Largest number of entries create_subdirectory and write_to_json put
\* below "/p" before they stop.
MaxEntries == 3

SlashP   == << <<"p">> >>                              \* "/p"
RootDir  == << <<"p">>, <<"r", "o", "o", "t">> >>      \* "/p/root"
DirNames == { <<"a">>, <<"b">> }
Years    == 2020..2021
FileNames == { <<"f">>, IntToStr(2020) }

\* Every name a directory below "/p/root" can have, in sorted order.
WalkNames == <<IntToStr(2020), IntToStr(2021), <<"a">>, <<"b">> >>

Reverse(s) == [i \in 1..Len(s) |-> s[Len(s) + 1 - i]]

\* The orders a directory listing is taken in.
ListingOrders == {WalkNames, Reverse(WalkNames)}

\* os.path.dirname(path), for path other than "/"
dirname(path) == SubSeq(path, 1, Len(path) - 1)

IsPrefix(d, path) == Len(d) <= Len(path) /\ SubSeq(path, 1, Len(d)) = d

\* os.path.exists(path)
exists(D, F, path) == path \in D \cup F

\* os.listdir(d), as a set
listdir(D, F, d) == {x \in D \cup F : Len(x) = Len(d) + 1 /\ IsPrefix(d, x)}

\* The subdirectories of d in the order ord the directory is listed in.
ChildDirs(D, d, ord) ==
    LET IsDir(x) == x \in D
    IN  SelectSeq([i \in 1..Len(ord) |-> d \o <<ord[i]>>], IsDir)

RECURSIVE walk(_, _, _)
RECURSIVE walk_all(_, _, _)
\* os.walk(d), top-down: the subdirectories of d, then the walk of each
walk(D, d, ord) ==
    LET kids == ChildDirs(D, d, ord)
    IN  kids \o walk_all(D, kids, ord)
walk_all(D, ds, ord) ==
    IF ds = <<>> THEN <<>>
    ELSE walk(D, Head(ds), ord) \o walk_all(D, Tail(ds), ord)

\* get_subdirs(parent_dir): os.walk yields nothing when parent_dir is not a
\* directory
get_subdirs(D, parent_dir, ord) ==
    IF parent_dir \in D THEN walk(D, parent_dir, ord) ELSE <<>>

\* os.rmdir(d) succeeds on an empty directory other than "/"
can_rmdir(D, F, d) == d \in D /\ d # <<>> /\ listdir(D, F, d) = {}

\* A pruning loop that stops at once: only the leaf is removed.
prune_none(D, F, head) == D

RECURSIVE prune(_, _, _)
\* The loop of os.removedirs: rmdir of each parent in turn, up to the first
\* that fails.
prune(D, F, head) ==
    IF head # <<>> /\ can_rmdir(D, F, head)
    THEN prune(D \ {head}, F, dirname(head))
    ELSE D

\* os.removedirs(name): the directories left and the exception raised
removedirs(D, F, name) ==
    IF can_rmdir(D, F, name)
    THEN [dirs |-> prune(D \ {name}, F, dirname(name)), raised |-> "none"]
    ELSE [dirs |-> D, raised |-> "OSError"]

RECURSIVE remove_all(_, _, _)
\* for remove_dir in remove_dirs: os.removedirs(remove_dir)
remove_all(D, F, remove_dirs) ==
    IF remove_dirs = <<>> THEN [dirs |-> D, raised |-> "none"]
    ELSE LET r == removedirs(D, F, Head(remove_dirs))
         IN  IF r.raised # "none" THEN r
             ELSE remove_all(r.dirs, F, Tail(remove_dirs))

delete_empty_dirs(D, F, dir_path, ord) ==
    LET subdirs == get_subdirs(D, dir_path, ord)
        IsEmpty(subdir) == listdir(D, F, subdir) = {}
        remove_dirs == SelectSeq(subdirs, IsEmpty)
    IN  remove_all(D, F, remove_dirs)

\* The prefixes of path, path included, "/" excluded.
Prefixes(path) == {SubSeq(path, 1, k) : k \in 1..Len(path)}

\* os.makedirs(path): the missing ancestors are created, then the leaf
makedirs(D, F, path) ==
    IF Prefixes(dirname(path)) \cap F # {}
    THEN [dirs |-> D, raised |-> "NotADirectoryError"]
    ELSE IF exists(D, F, path)
    THEN [dirs |-> D \cup Prefixes(dirname(path)), raised |-> "FileExistsError"]
    ELSE [dirs |-> D \cup Prefixes(path), raised |-> "none"]

\* A test of the year path that only looks for directories.
isdir(D, F, path) == path \in D

\* os.path.exists(year_path), as create_year_directories uses it
year_path_exists(D, F, path) == exists(D, F, path)

RECURSIVE create_years(_, _, _, _, _)
\* for year in range(start_year, end_year + 1): ...
create_years(D, F, year, last, base) ==
    IF year > last THEN [dirs |-> D, raised |-> "none"]
    ELSE LET year_path == base \o <<IntToStr(year)>>
         IN  IF ~year_path_exists(D, F, year_path)
             THEN LET r == makedirs(D, F, year_path)
                  IN  IF r.raised # "none" THEN r
                      ELSE create_years(r.dirs, F, year + 1, last, base)
             ELSE create_years(D, F, year + 1, last, base)

create_year_directories(D, F, first, last, base) ==
    create_years(D, F, first, last, base)

\* Number of entries below "/p", "/p/root" not counted.
Entries == Cardinality({x \in (dirs \cup files) \ {RootDir} : Len(x) > 1})

NoYearCall ==
    /\ base_path' = <<>>
    /\ start_year' = 0
    /\ end_year' = 0
    /\ requested' = {}

\* create_subdirectory(name, parent_dir) on an existing parent directory
CreateSubdirectory ==
    \E parent_dir \in dirs \ {<<>>}, name \in DirNames :
        LET new_dir == parent_dir \o <<name>>
        IN  /\ Entries < MaxEntries
            /\ op' = "create_subdirectory"
            /\ dirs' = IF ~exists(dirs, files, new_dir)
                       THEN dirs \cup {new_dir} ELSE dirs
            /\ files' = files
            /\ raised' = "none"
            /\ dirs0' = dirs'
            /\ files0' = files'
            /\ NoYearCall
            /\ UNCHANGED <<utmVars, roiVars, cfgVars, scaleVars>>

\* write_to_json(filepath, settings) on a path in an existing directory
WriteToJson ==
    \E parent_dir \in dirs \ {<<>>}, name \in FileNames :
        LET json_path == parent_dir \o <<name>>
        IN  /\ Entries < MaxEntries
            /\ json_path \notin dirs
            /\ op' = "write_to_json"
            /\ files' = files \cup {json_path}
            /\ dirs' = dirs
            /\ raised' = "none"
            /\ dirs0' = dirs'
            /\ files0' = files'
            /\ NoYearCall
            /\ UNCHANGED <<utmVars, roiVars, cfgVars, scaleVars>>

\* delete_empty_dirs("/p/root"), the directories being listed in any order
DeleteEmptyDirs ==
    \E ord \in ListingOrders :
        LET r == delete_empty_dirs(dirs, files, RootDir, ord)
        IN  /\ op' = "delete_empty_dirs"
            /\ dirs' = r.dirs
            /\ files' = files
            /\ raised' = r.raised
            /\ dirs0' = dirs
            /\ files0' = files
            /\ NoYearCall
            /\ UNCHANGED <<utmVars, roiVars, cfgVars, scaleVars>>

\* create_year_directories(first, last, base)
CreateYearDirectories ==
    \E first \in Years, last \in Years,
       base \in {RootDir, RootDir \o << <<"a">> >>} :
        LET r == create_year_directories(dirs, files, first, last, base)
        IN  /\ op' = "create_year_directories"
            /\ dirs' = r.dirs
            /\ files' = files
            /\ raised' = r.raised
            /\ dirs0' = dirs
            /\ files0' = files
            /\ base_path' = base
            /\ start_year' = first
            /\ end_year' = last
            /\ requested' = requested \cup
                   {base \o <<IntToStr(y)>> : y \in first..last}
            /\ UNCHANGED <<utmVars, roiVars, cfgVars, scaleVars>>

InitFs ==
    /\ op = "init"
    /\ raised = "none"
    /\ IdleUtm
    /\ IdleRoi
    /\ IdleCfg
    /\ IdleScale
    /\ dirs = {<<>>, SlashP, RootDir}
    /\ files = {}
    /\ dirs0 = dirs
    /\ files0 = files
    /\ base_path = <<>>
    /\ start_year = 0
    /\ end_year = 0
    /\ requested = {}

NextFs ==
    \/ CreateSubdirectory
    \/ WriteToJson
    \/ DeleteEmptyDirs
    \/ CreateYearDirectories

SpecFs == InitFs /\ [][NextFs]_vars

\* The entries of S strictly below the directory d.
Below(d, S) == {x \in S : Len(x) > Len(d) /\ IsPrefix(d, x)}

\* The directory d holds a file of F, directly or in a descendant.
HoldsFile(F, d) == \E f \in F : IsPrefix(d, f)

DeleteCalled == op = "delete_empty_dirs"

\* C2: one call of delete_empty_dirs(root) removes exactly the
\* subdirectories of root whose subtree contains no file: afterwards no
\* empty subdirectory remains under root, every subdirectory holding a file
\* directly or in a descendant still exists, no file is touched and the
\* call raises nothing.
C2_RemovesExactlyFilelessSubdirs ==
    DeleteCalled =>
        /\ raised = "none"
        /\ files = files0
        /\ Below(RootDir, dirs) \subseteq Below(RootDir, dirs0)
        /\ \A d \in Below(RootDir, dirs0) : d \in dirs <=> HoldsFile(files0, d)
        /\ \A d \in Below(RootDir, dirs) : listdir(dirs, files, d) # {}

\* Witness of C2: the call removed a subdirectory that was not empty when
\* the call began (it held only empty directories), and kept another one.
C2_WitnessNested ==
    /\ DeleteCalled
    /\ \E d \in Below(RootDir, dirs0) :
           listdir(dirs0, files0, d) # {} /\ d \notin dirs
    /\ Below(RootDir, dirs) # {}

\* C10: delete_empty_dirs(root) only removes strict descendants of root:
\* root itself and every ancestor of root still exist after the call.
C10_RootAndAncestorsSurvive ==
    DeleteCalled => \A d \in Prefixes(RootDir) \cap dirs0 : d \in dirs

YearsCalled == op = "create_year_directories"

\* The year paths of the last call.
YearPaths == {base_path \o <<IntToStr(y)>> : y \in start_year..end_year}

\* What every call of create_year_directories keeps: no error, nothing
\* removed or emptied, nothing changed when every year path exists already
\* or when start_year > end_year.
YearsAdditive ==
    /\ raised = "none"
    /\ dirs0 \subseteq dirs
    /\ files = files0
    /\ (\A yp \in YearPaths : exists(dirs0, files0, yp)) => dirs = dirs0
    /\ start_year > end_year => dirs = dirs0

\* C8 as stated: after any sequence of calls of create_year_directories a
\* subdirectory exists for each year of every requested range, and every
\* call is additive.
C8_YearSubdirectoriesExist ==
    YearsCalled => (requested \subseteq dirs /\ YearsAdditive)

\* C8 as amended: after any sequence of calls every requested year path
\* exists, as a subdirectory unless a file of that name was there already,
\* and every call is additive.
C8_YearPathsExist ==
    YearsCalled =>
        /\ \A yp \in requested : yp \in dirs \/ yp \in files
        /\ YearsAdditive

\* Witness of C8: one call created a year directory, under a base path
\* that did not exist, after an earlier call had asked for another year.
C8_WitnessCreated ==
    /\ YearsCalled
    /\ base_path \notin dirs0
    /\ \E yp \in YearPaths : yp \notin dirs0 /\ yp \in dirs
    /\ requested # YearPaths


-----------------------------------------------------------------------------
(* extract_roi_by_id                                                       *)

\* Largest number of rows of a collection.
MaxRows == 3

\* The ids the rows carry and the ids asked for.
RowIds == {PyStr(<<"1">>), PyStr(<<"2">>), PyStr(<<"3">>), PyInt(2)}
RoiIdArgs == {PyNone, PyStr(<<"2">>), PyInt(2), PyInt(3), PyStr(<<"9">>),
              PyInt(12)}

\* A collection is the sequence of its rows; the geometry of a row is
\* stood for by the row's position, which makes the rows distinct.
Collection(ids) == [i \in 1..Len(ids) |-> [id |-> ids[i], geometry |-> i]]

Collections == {Collection(ids) : ids \in UNION {[1..n -> RowIds] : n \in 0..MaxRows}}

\* A comparison of the ids as they are, without conversion.
ids_equal_raw(a, b) == PyEq(a, b)

\* gdf["id"].astype(str) == str(roi_id), for one row
ids_equal(a, b) == str(a) = str(b)

\* A test of emptiness that never fires.
is_empty_never(frame) == FALSE

\* single_roi.empty, for a frame that has its columns
is_empty(frame) == Len(frame) = 0

extract_roi_by_id(g, rid) ==
    LET Matches(row) == ids_equal(row.id, rid)
        single == IF rid.t = "none" THEN g ELSE SelectSeq(g, Matches)
    IN  IF is_empty(single)
        THEN [value |-> <<>>, raised |-> "Id_Not_Found"]
        ELSE [value |-> single, raised |-> "none"]

InitRoi ==
    /\ op = "init"
    /\ raised = "none"
    /\ IdleUtm
    /\ IdleFs
    /\ IdleCfg
    /\ IdleScale
    /\ gdf \in Collections
    /\ gdf0 = gdf
    /\ roi_id \in RoiIdArgs
    /\ single_roi = <<>>

\* extract_roi_by_id(gdf, roi_id): boolean indexing builds a new frame
ExtractRoiById ==
    /\ op = "init"
    /\ LET r == extract_roi_by_id(gdf, roi_id)
       IN  /\ op' = "extract_roi_by_id"
           /\ single_roi' = r.value
           /\ raised' = r.raised
           /\ UNCHANGED <<gdf, gdf0, roi_id>>
    /\ UNCHANGED <<utmVars, fsVars, cfgVars, scaleVars>>

NextRoi == ExtractRoiById

SpecRoi == InitRoi /\ [][NextRoi]_vars

ExtractCalled == op = "extract_roi_by_id"

\* C3 as stated: with roi_id None the collection is returned unchanged and
\* no error is raised, also for a collection with zero rows.
C3_NoneReturnsCollection ==
    (ExtractCalled /\ roi_id.t = "none") =>
        (raised = "none" /\ single_roi = gdf0 /\ gdf = gdf0)

\* C3 as amended: with roi_id None a collection that has at least one row
\* is returned unchanged and no error is raised; on a collection with zero
\* rows the call raises Id_Not_Found.
C3_NoneReturnsNonEmptyCollection ==
    (ExtractCalled /\ roi_id.t = "none") =>
        /\ gdf = gdf0
        /\ Len(gdf0) > 0 => (raised = "none" /\ single_roi = gdf0)
        /\ Len(gdf0) = 0 => (raised = "Id_Not_Found" /\ single_roi = <<>>)

\* Witness of C3: the call with roi_id None returned a collection of three
\* rows.
C3_WitnessNone ==
    ExtractCalled /\ roi_id.t = "none" /\ Len(gdf0) = 3 /\ single_roi = gdf0

\* The positions of the rows whose id, as a string, is the id asked for.
MatchingRows == {i \in 1..Len(gdf0) : str(gdf0[i].id) = str(roi_id)}

\* C4: with a roi_id other than None the ids are compared as strings: if
\* some row matches, exactly the matching rows are returned, in their order;
\* if none does, Id_Not_Found is raised and nothing is returned; the input
\* collection is not modified.
C4_FiltersByStringId ==
    (ExtractCalled /\ roi_id.t # "none") =>
        /\ gdf = gdf0
        /\ MatchingRows # {} =>
              /\ raised = "none"
              /\ Len(single_roi) = Cardinality(MatchingRows)
              /\ \A j \in 1..Len(single_roi) :
                     single_roi[j].geometry \in MatchingRows
                     /\ single_roi[j] = gdf0[single_roi[j].geometry]
              /\ \A j \in 1..(Len(single_roi) - 1) :
                     single_roi[j].geometry < single_roi[j + 1].geometry
        /\ MatchingRows = {} =>
              (raised = "Id_Not_Found" /\ single_roi = <<>>)

\* Witness of C4: an int id asked for was found in a row that carries it
\* as a str, among rows that do not match.
C4_WitnessIntMatchesStr ==
    /\ ExtractCalled
    /\ PyEq(roi_id, PyInt(2))
    /\ raised = "none"
    /\ Len(single_roi) = 1
    /\ PyEq(single_roi[1].id, PyStr(<<"2">>))
    /\ Len(gdf0) = 3

-----------------------------------------------------------------------------
(* create_json_config, create_roi_settings                                 *)

\* Largest number of ROIs in inputs, and of features in selected_rois.
MaxRois == 2
MaxFeatures == 2

K_roi_ids  == <<"r", "o", "i", "_", "i", "d", "s">>
K_settings == <<"s", "e", "t", "t", "i", "n", "g", "s">>
K_sitename == <<"s", "i", "t", "e", "n", "a", "m", "e">>
K_dates    == <<"d", "a", "t", "e", "s">>
K_filepath == <<"f", "i", "l", "e", "p", "a", "t", "h">>
K_roi_id   == <<"r", "o", "i", "_", "i", "d">>
K_id       == <<"i", "d">>
K_sat_list == <<"s", "a", "t", "_", "l", "i", "s", "t">>

\* The keys inputs can have, and the values they map to.
InputKeys == {<<"1">>, <<"2">>, K_roi_ids, K_settings}
InputValues ==
    {PyDict(DictOf(<< <<K_sat_list, PyStr(<<"L", "8">>)>> >>)),
     PyDict(DictOf(<< <<K_sat_list, PyStr(<<"S", "2">>)>> >>))}

\* The settings dicts: both have 'sitename' and 'dates'.
SettingsDicts ==
    {DictOf(<< <<K_sitename, PyStr(<<"s", "1">>)>>,
               <<K_dates, PyList(<< <<"1", "8">>, <<"1", "9">> >>)>> >>),
     DictOf(<< <<K_dates, PyList(<< <<"2", "0">>, <<"2", "1">> >>)>>,
               <<K_sitename, PyStr(<<"s", "2">>)>>,
               <<<<"c">>, PyStr(<<"0", ".", "5">>)>> >>)}

\* The dicts with at most n keys, all in InputKeys, in any insertion order.
RECURSIVE InputDicts(_)
InputDicts(n) ==
    IF n = 0 THEN {EmptyDict}
    ELSE LET smaller == InputDicts(n - 1)
         IN  smaller \cup
             {DictSet(d, k, v) : d \in smaller, k \in InputKeys,
                                 v \in InputValues}

\* A copy that is the dict itself.
unpack_alias(d) == [dict |-> d, shares |-> TRUE]

\* {**d}: a new dict with the items of d, in their order
unpack(d) == [dict |-> d, shares |-> FALSE]

\* The dict returned, and the dict inputs refers to when the call returns.
create_json_config(inp, st) ==
    LET roi_ids == DictKeys(inp)
        copy    == unpack(inp)
        config1 == DictSet(copy.dict, K_roi_ids, PyList(roi_ids))
        config2 == DictSet(config1, K_settings, PyDict(st))
    IN  [value  |-> config2,
         inputs |-> IF copy.shares THEN config2 ELSE inp]

\* d[k]: the value, or the KeyError of a missing key
DictGet(d, k) ==
    IF k \in DOMAIN d.val
    THEN [value |-> d.val[k], raised |-> "none"]
    ELSE [value |-> PyNone, raised |-> "KeyError"]

\* The ids the features carry.
FeatureIds == {PyInt(1), PyStr(<<"1">>), PyInt(2), PyStr(<<"2">>), PyInt(12)}

Feature(id) == [properties |-> DictOf(<< <<K_id, id>> >>)]

FeatureLists ==
    UNION {[1..n -> {Feature(id) : id \in FeatureIds}] : n \in 0..MaxFeatures}

RECURSIVE roi_loop(_, _, _, _, _)
\* for roi in selected_rois["features"]: ...
roi_loop(acc, features, sitename, dates, fp) ==
    IF features = <<>> THEN [value |-> acc, raised |-> "none"]
    ELSE LET id == DictGet(Head(features).properties, K_id)
         IN  IF id.raised # "none" THEN [value |-> acc, raised |-> id.raised]
             ELSE LET rid == str(id.value)
                      roi_info == DictOf(<< <<K_dates, dates>>,
                                            <<K_roi_id, PyStr(rid)>>,
                                            <<K_sitename, sitename>>,
                                            <<K_filepath, PyStr(fp)>> >>)
                  IN  roi_loop(DictSet(acc, rid, PyDict(roi_info)),
                               Tail(features), sitename, dates, fp)

\* A loop that misses the first feature.
create_roi_settings_skip(st, features, fp) ==
    roi_loop(EmptyDict, IF features = <<>> THEN <<>> ELSE Tail(features),
             st.val[K_sitename], st.val[K_dates], fp)

create_roi_settings(st, features, fp) ==
    LET sitename == DictGet(st, K_sitename)
        dates    == DictGet(st, K_dates)
    IN  IF sitename.raised # "none"
        THEN [value |-> EmptyDict, raised |-> sitename.raised]
        ELSE IF dates.raised # "none"
        THEN [value |-> EmptyDict, raised |-> dates.raised]
        ELSE roi_loop(EmptyDict, features, sitename.value, dates.value, fp)

InitCfg ==
    /\ op = "init"
    /\ raised = "none"
    /\ IdleUtm
    /\ IdleFs
    /\ IdleRoi
    /\ IdleScale
    /\ inputs \in InputDicts(MaxRois)
    /\ inputs0 = inputs
    /\ settings \in SettingsDicts
    /\ config = EmptyDict
    /\ selected_rois \in FeatureLists
    /\ filepath \in {<<"d">>}
    /\ roi_settings = EmptyDict

\* create_json_config(inputs, settings)
CreateJsonConfig ==
    /\ op = "init"
    /\ LET r == create_json_config(inputs, settings)
       IN  /\ op' = "create_json_config"
           /\ config' = r.value
           /\ inputs' = r.inputs
           /\ raised' = "none"
    /\ UNCHANGED <<inputs0, settings, selected_rois, filepath, roi_settings>>
    /\ UNCHANGED <<utmVars, fsVars, roiVars, scaleVars>>

\* create_roi_settings(settings, selected_rois, filepath)
CreateRoiSettings ==
    /\ op = "init"
    /\ LET r == create_roi_settings(settings, selected_rois, filepath)
       IN  /\ op' = "create_roi_settings"
           /\ roi_settings' = r.value
           /\ raised' = r.raised
    /\ UNCHANGED <<inputs, inputs0, settings, config, selected_rois, filepath>>
    /\ UNCHANGED <<utmVars, fsVars, roiVars, scaleVars>>

NextCfg == CreateJsonConfig \/ CreateRoiSettings

SpecCfg == InitCfg /\ [][NextCfg]_vars

ConfigCalled == op = "create_json_config"

\* What create_json_config does whatever the keys of inputs are: no error,
\* 'roi_ids' is the list of the keys of inputs in insertion order,
\* 'settings' is the settings given, and inputs is left as it was.
ConfigFrame ==
    /\ raised = "none"
    /\ inputs = inputs0
    /\ DOMAIN config.val = (DOMAIN inputs0.val) \cup {K_roi_ids, K_settings}
    /\ PyEq(config.val[K_roi_ids], PyList(inputs0.keys))
    /\ PyEq(config.val[K_settings], PyDict(settings))

\* C5 as stated: create_json_config returns a mapping with 'roi_ids' and
\* 'settings' as above that maps every key of inputs to the value inputs
\* maps it to, never fails and leaves inputs unmodified.
C5_ConfigKeepsEveryInput ==
    ConfigCalled =>
        /\ ConfigFrame
        /\ \A k \in DOMAIN inputs0.val : PyEq(config.val[k], inputs0.val[k])

\* C5 as amended: the same for every key of inputs other than 'roi_ids'
\* and 'settings'; under these two keys the returned mapping holds the list
\* of keys and the settings, whatever inputs held there.
C5_ConfigKeepsOtherInputs ==
    ConfigCalled =>
        /\ ConfigFrame
        /\ \A k \in (DOMAIN inputs0.val) \ {K_roi_ids, K_settings} :
               PyEq(config.val[k], inputs0.val[k])

\* Witness of C5: the call on inputs with two ROI ids, "2" inserted first.
C5_WitnessTwoRois ==
    /\ ConfigCalled
    /\ inputs0.keys = << <<"2">>, <<"1">> >>
    /\ ~PyEq(inputs0.val[<<"1">>], inputs0.val[<<"2">>])

RoiSettingsCalled == op = "create_roi_settings"

\* The ids of the features, as strings.
FeatureIdStrings ==
    {str(selected_rois[i].properties.val[K_id]) : i \in 1..Len(selected_rois)}

\* C9: for settings with 'sitename' and 'dates' and features that all carry
\* an id, create_roi_settings returns a mapping whose keys are exactly the
\* stringified feature ids, one record per distinct id; the record under
\* key k has roi_id k, the dates and sitename of settings and the filepath
\* given.
C9_OneRecordPerId ==
    RoiSettingsCalled =>
        /\ raised = "none"
        /\ DOMAIN roi_settings.val = FeatureIdStrings
        /\ Len(roi_settings.keys) = Cardinality(FeatureIdStrings)
        /\ \A k \in DOMAIN roi_settings.val :
             LET rec == roi_settings.val[k]
             IN  /\ rec.t = "dict"
                 /\ DOMAIN rec.v.val = {K_dates, K_roi_id, K_sitename, K_filepath}
                 /\ PyEq(rec.v.val[K_roi_id], PyStr(k))
                 /\ PyEq(rec.v.val[K_dates], settings.val[K_dates])
                 /\ PyEq(rec.v.val[K_sitename], settings.val[K_sitename])
                 /\ PyEq(rec.v.val[K_filepath], PyStr(filepath))

\* Witness of C9: two features whose ids, an int and a str, are the same
\* string gave one record.
C9_WitnessSameString ==
    /\ RoiSettingsCalled
    /\ Len(selected_rois) = 2
    /\ selected_rois[1].properties.val[K_id].t = "int"
    /\ selected_rois[2].properties.val[K_id].t = "str"
    /\ Len(roi_settings.keys) = 1

-----------------------------------------------------------------------------
(* scale                                                                   *)

\* Largest number of rows and of columns of a source matrix, and of a
\* resized one.
MaxSrc == 2
MaxDst == 3

Labels == {0, 1}

Matrices ==
    UNION {[1..nr -> [1..nc -> Labels]] : nr \in 1..MaxSrc, nc \in 1..MaxSrc}

\* int(a / b) for ints a and b > 0: the quotient truncated towards zero
int_div(a, b) == IF a >= 0 THEN a \div b ELSE 0 - ((0 - a) \div b)

\* A resize that divides before it multiplies: src * int(r / rows).
scale_div_first(m, nr, nc) ==
    LET src_rows == Len(m)
        src_cols == Len(m[1])
    IN  [r \in 1..nr |->
            [c \in 1..nc |->
                m[src_rows * int_div(r - 1, nr) + 1]
                 [src_cols * int_div(c - 1, nc) + 1]]]

\* The sequences are indexed from 1, the code's lists from 0.
scale(m, nr, nc) ==
    LET src_rows == Len(m)
        src_cols == Len(m[1])
    IN  [r \in 1..nr |->
            [c \in 1..nc |->
                m[int_div(src_rows * (r - 1), nr) + 1]
                 [int_div(src_cols * (c - 1), nc) + 1]]]

InitScale ==
    /\ op = "init"
    /\ raised = "none"
    /\ IdleUtm
    /\ IdleFs
    /\ IdleRoi
    /\ IdleCfg
    /\ matrix \in Matrices
    /\ matrix0 = matrix
    /\ rows \in 1..MaxDst
    /\ cols \in 1..MaxDst
    /\ scaled = <<>>

\* scale(matrix, rows, cols): the matrix is only read
Scale ==
    /\ op = "init"
    /\ op' = "scale"
    /\ scaled' = scale(matrix, rows, cols)
    /\ UNCHANGED <<matrix, matrix0, rows, cols, raised>>
    /\ UNCHANGED <<utmVars, fsVars, roiVars, cfgVars>>

NextScale == Scale

SpecScale == InitScale /\ [][NextScale]_vars

ScaleCalled == op = "scale"

\* i is floor(n * k / d): the multiple of d at or just below n * k
IsFloorOf(i, n, k, d) == i * d <= n * k /\ n * k < (i + 1) * d

\* C7: for a non-empty rectangular source and rows, cols > 0, scale returns
\* a rows-by-cols matrix whose cell (r, c) is the source cell
\* (floor(src_rows * r / rows), floor(src_cols * c / cols)), an index inside
\* the source; resizing to the source's shape returns the input; the source
\* is not modified.
C7_NearestNeighbour ==
    ScaleCalled =>
        LET src_rows == Len(matrix0)
            src_cols == Len(matrix0[1])
        IN  /\ matrix = matrix0
            /\ Len(scaled) = rows
            /\ \A r \in 0..(rows - 1) :
                 /\ Len(scaled[r + 1]) = cols
                 /\ \A c \in 0..(cols - 1) :
                      \E i \in 0..(src_rows - 1), j \in 0..(src_cols - 1) :
                          /\ IsFloorOf(i, src_rows, r, rows)
                          /\ IsFloorOf(j, src_cols, c, cols)
                          /\ scaled[r + 1][c + 1] = matrix0[i + 1][j + 1]
            /\ (rows = src_rows /\ cols = src_cols) => scaled = matrix0

\* Witness of C7: a matrix with two different labels in a row was enlarged
\* in both directions to sizes its own do not divide.
C7_WitnessEnlarged ==
    /\ ScaleCalled
    /\ Len(matrix0) = 2 /\ Len(matrix0[1]) = 2
    /\ rows = 3 /\ cols = 3
    /\ matrix0[1][1] # matrix0[1][2]
    /\ matrix0[1][1] # matrix0[2][1]

-----------------------------------------------------------------------------
(* UTM resolver                                                            *)

\* Longitudes and latitudes (hundredths of a degree) the vertices are drawn
\* from.
LonSet == {-18000, -17500, -17400, -13200, -12600, -12250, -12230, -300, 0,
           225, 245, 5400, 17400, 17999, 18000}
LatSet == {-9000, -4500, -1, 0, 1, 3770, 3790, 4875, 4895, 9000}

\* The closed ring of the rectangle with opposite corners (x1,y1), (x2,y2).
Ring(x1, y1, x2, y2) ==
    << <<x1, y1>>, <<x2, y1>>, <<x2, y2>>, <<x1, y2>>, <<x1, y1>> >>

\* The centre is returned as the pair of the doubled coordinates, so that
\* the halves stay exact: a centre coordinate is in units of 1/200 degree.
get_center_rectangle(cs) ==
    LET x1 == cs[1][1]
        y1 == cs[1][2]
        x2 == cs[3][1]
        y2 == cs[3][2]
    IN  <<x1 + x2, y1 + y2>>

\* A zone computation that forgets the wrap-around of longitude 180.
utm_zone_nowrap(lon) == ((lon + 36000) \div 1200) + 1

\* (math.floor((lon + 180) / 6) % 60) + 1, lon in units of 1/200 degree
utm_zone(lon) == (((lon + 36000) \div 1200) % 60) + 1

\* The test of line 234, len(utm_band) == "1", compares an int with a str.
band_is_short(utm_band) == PyEq(PyInt(Len(utm_band)), PyStr(<<"1">>))

hemisphere_prefix(lat) ==
    IF lat >= 0 THEN <<"3", "2", "6">> ELSE <<"3", "2", "7">>

convert_wgs_to_utm(lon, lat) ==
    LET utm_band0 == IntToStr(utm_zone(lon))
        utm_band  == IF band_is_short(utm_band0)
                     THEN <<"0">> \o utm_band0
                     ELSE utm_band0
    IN  hemisphere_prefix(lat) \o utm_band

\* The caller's rectangle: any two opposite corners.
InitUtm ==
    /\ op = "init"
    /\ \E x1 \in LonSet, x2 \in LonSet, y1 \in LatSet, y2 \in LatSet :
           coords = Ring(x1, y1, x2, y2)
    /\ utm_code = <<>>
    /\ epsg = 0
    /\ raised = "none"
    /\ IdleFs
    /\ IdleRoi
    /\ IdleCfg
    /\ IdleScale

\* get_epsg_from_geometry(geometry): the centre of the ring, its UTM code,
\* and int() of that code.
GetEpsgFromGeometry ==
    /\ op = "init"
    /\ LET c == get_center_rectangle(coords)
       IN  /\ op' = "get_epsg_from_geometry"
           /\ coords' = coords
           /\ utm_code' = convert_wgs_to_utm(c[1], c[2])
           /\ epsg' = StrToInt(utm_code')
           /\ UNCHANGED <<raised, fsVars, roiVars, cfgVars, scaleVars>>

NextUtm == GetEpsgFromGeometry

SpecUtm == InitUtm /\ [][NextUtm]_vars

\* The centre of the ring of the current state, in units of 1/200 degree.
Centroid == get_center_rectangle(coords)

UtmCalled == op = "get_epsg_from_geometry"

\* C1: for every rectangle whose centroid has longitude in [-180,180) and
\* latitude in [-90,90], get_epsg_from_geometry returns an integer in
\* 32601..32660 or 32701..32760 (prefix, then the zone padded to two digits).
C1_EpsgInUtmRange ==
    (UtmCalled /\ Centroid[1] \in -36000..35999 /\ Centroid[2] \in -18000..18000)
        => epsg \in (32601..32660) \cup (32701..32760)

\* C6: for every centroid longitude in [-180,180] the zone of the returned
\* code is in 1..60 and is the six-degree strip the longitude lies in
\* (longitude 180 wraps to zone 1), the code begins with 326 exactly when the
\* centroid latitude is >= 0 and with 327 otherwise, centroid (-122.4, 37.8)
\* gives 32610 and centroid (2.35, 48.85) gives 32631.
C6_ZoneAndHemisphere ==
    (UtmCalled /\ Centroid[1] \in -36000..36000) =>
        LET lon  == Centroid[1]
            lat  == Centroid[2]
            zone == StrToInt(SubSeq(utm_code, 4, Len(utm_code)))
        IN  /\ Len(utm_code) \in 4..5
            /\ zone \in 1..60
            /\ lon < 36000 =>
                  /\ -36000 + 1200 * (zone - 1) <= lon
                  /\ lon < -36000 + 1200 * zone
            /\ lon = 36000 => zone = 1
            /\ (SubSeq(utm_code, 1, 3) = <<"3", "2", "6">>) <=> (lat >= 0)
            /\ (SubSeq(utm_code, 1, 3) = <<"3", "2", "7">>) <=> (lat < 0)
            /\ (lon = -24480 /\ lat = 7560) => epsg = 32610
            /\ (lon = 470 /\ lat = 9770) => epsg = 32631

\* Witness of C6: the call was made on a rectangle centred on longitude 180,
\* in the southern hemisphere, and on the San Francisco rectangle.
C6_WitnessWrap == UtmCalled /\ Centroid[1] = 36000 /\ Centroid[2] < 0


====
